---- MODULE Spec2Model ----
(***************************************************************************)
(* Model of the Fedimint log analysis tool: analyze_logs.py (timestamp     *)
(* extraction, log-file scan, per-run and per-version aggregation, the     *)
(* console report of main) and generate_report.py (the markdown report).   *)
(*                                                                         *)
(* Text is modelled as a sequence of fragments: a word (a piece of text    *)
(* without a timestamp), a stamp (timestamp-shaped text) or a blank.       *)
(* Python floats are modelled as exact rationals [n, d].  Instants are     *)
(* whole seconds, t = day * SecondsPerDay + second of the day.             *)
(***************************************************************************)
EXTENDS Integers, Sequences, FiniteSets, TLC

VARIABLES
    iso_any_fraction, \* the interpreter's datetime.fromisoformat accepts any number of fraction digits (3.11+)
    f_pc,             \* analyze_log_file: position
    lines,            \* analyze_log_file: lines read from the file
    idx,              \* analyze_log_file: index of the next line of the for loop
    line,             \* analyze_log_file: the current line, stripped
    timestamp,        \* analyze_log_file: parse_timestamp's result for the current line
    results,          \* analyze_log_file: the LogAnalysis under construction
    v_pc,             \* analyze_version_directory: position
    test_dirs,        \* analyze_version_directory: the sorted run directories
    dir_idx,          \* analyze_version_directory: index of the next run directory
    run_analysis,     \* analyze_test_run: the TestRunAnalysis under construction
    version_results,  \* analyze_version_directory: its results dict
    durations,        \* analyze_version_directory: the collected CLI durations
    m_pc,             \* main: position
    m_i,              \* main: index of the version of the current loop
    m_where,          \* main: the computation that raised, when m_pc = "raised"
    main_results,     \* main: results, version -> analysis (None: not in the dict)
    console,          \* main: what was printed after the analysis
    results_file,     \* log_analysis_results.json (None: absent)
    r_pc,             \* generate_detailed_report: position
    r_i,              \* generate_detailed_report: index of the version of the current loop
    r_raised,         \* generate_detailed_report: the exception that ended it ("": none)
    report_results,   \* generate_detailed_report: results as loaded
    markdown          \* generate_detailed_report: the table rows printed

file_vars == <<f_pc, lines, idx, line, timestamp, results>>

version_vars == <<v_pc, test_dirs, dir_idx, run_analysis, version_results, durations>>

main_vars == <<m_pc, m_i, m_where, main_results, console, results_file>>

report_vars == <<r_pc, r_i, r_raised, report_results, markdown>>

vars == <<iso_any_fraction, file_vars, version_vars, main_vars, report_vars>>

\* Python's None.
None == [none |-> TRUE]

(***************************************************************************)
(* Bounds.                                                                 *)
(***************************************************************************)
\* Longest log file, in lines, that analyze_log_file is run on stepwise.
MaxLines == 3

\* Most run directories of the version directory analyzed stepwise.
MaxRuns == 3

(***************************************************************************)
(* Floats as rationals.                                                    *)
(***************************************************************************)
Abs(x) == IF x < 0 THEN -x ELSE x

RECURSIVE GCD(_, _)
GCD(a, b) == IF b = 0 THEN a ELSE GCD(b, a % b)

\* n/d in lowest terms with a positive denominator (d # 0).
Rat(n, d) ==
    LET g == GCD(Abs(n), Abs(d))
        s == IF d < 0 THEN -1 ELSE 1
    IN  [n |-> (s * n) \div g, d |-> (s * d) \div g]

Float(k) == [n |-> k, d |-> 1]

RSub(a, b) == Rat(a.n * b.d - b.n * a.d, a.d * b.d)

RAdd(a, b) == Rat(a.n * b.d + b.n * a.d, a.d * b.d)

\* a / b for b # 0; the caller models ZeroDivisionError.
RDiv(a, b) == Rat(a.n * b.d, a.d * b.n)

RMul(a, k) == Rat(a.n * k, a.d)

RLess(a, b) == a.n * b.d < b.n * a.d

IsZero(a) == a.n = 0

(***************************************************************************)
(* Text.                                                                   *)
(***************************************************************************)
Word(w) == [k |-> "word", w |-> w]

Blank == [k |-> "blank"]

\* Timestamp-shaped text.  form: "iso"  = YYYY-MM-DDTHH:MM:SS.f+Z,
\* "std" = YYYY-MM-DD HH:MM:SS.f+, "time" = HH:MM:SS.f+.  date_ok / time_ok:
\* the digits name a calendar date / a time of day.  fd: fraction digits.
Stamp(form, date_ok, day, time_ok, sec, fd) ==
    [k |-> "stamp", form |-> form, date_ok |-> date_ok, day |-> day,
     time_ok |-> time_ok, sec |-> sec, fd |-> fd]

SecondsPerDay == 24 * 60 * 60

\* Dates datetime.now().date() may return while a file is scanned.
Days == {1, 2}

\* str.lower() of a word.
Lower(w) ==
    CASE w = "ERROR disco box failed" -> "error disco box failed"
      [] w = "WARN Failed to open Disco Box" -> "warn failed to open disco box"
      [] w = "START" -> "start"
      [] w = "WARNING PKarr publish error" -> "warning pkarr publish error"
      [] OTHER -> w

\* The needles of the program that occur in a word (needle in word).
Needles(w) ==
    CASE w = "ERROR disco box failed" -> {"ERROR"}
      [] w = "error disco box failed" -> {"disco box"}
      [] w = "WARN Failed to open Disco Box" -> {"WARN"}
      [] w = "warn failed to open disco box" -> {"disco box", "failed to open disco box"}
      [] w = "{\"joined\": true}" -> {"\"joined\""}
      [] w = "WARNING PKarr publish error" -> {"WARN"}
      [] w = "warning pkarr publish error" -> {"pkarr publish error"}
      [] w = "resolving dns.iroh.link" -> {"dns.iroh.link"}
      [] OTHER -> {}

\* needle in text
In(needle, text) ==
    \E i \in 1..Len(text) : text[i].k = "word" /\ needle \in Needles(text[i].w)

\* text.lower()
lower(text) ==
    [i \in 1..Len(text) |->
        IF text[i].k = "word" THEN Word(Lower(text[i].w)) ELSE text[i]]

RECURSIVE lstrip(_)
lstrip(text) ==
    IF text # <<>> /\ Head(text) = Blank THEN lstrip(Tail(text)) ELSE text

RECURSIVE rstrip(_)
rstrip(text) ==
    IF text # <<>> /\ text[Len(text)] = Blank
    THEN rstrip(SubSeq(text, 1, Len(text) - 1))
    ELSE text

\* str.strip()
strip(text) == rstrip(lstrip(text))

(***************************************************************************)
(* parse_timestamp                                                         *)
(***************************************************************************)
\* The three regular expressions, in the order of the list.
patterns == <<"iso", "std", "time">>

\* Whether the pattern matches inside a fragment.  The time-only pattern
\* matches the time part of every timestamp-shaped text.
Matches(pattern, frag) ==
    /\ frag.k = "stamp"
    /\ \/ pattern = "time"
       \/ pattern = frag.form

\* match.group(1) for a fragment the pattern matches.
Group1(pattern, frag) ==
    IF pattern = "time"
    THEN [form |-> "time", date_ok |-> TRUE, day |-> 0,
          time_ok |-> frag.time_ok, sec |-> frag.sec, fd |-> frag.fd]
    ELSE [form |-> frag.form, date_ok |-> frag.date_ok, day |-> frag.day,
          time_ok |-> frag.time_ok, sec |-> frag.sec, fd |-> frag.fd]

\* re.search(pattern, line): the leftmost match, or None.
re_search(pattern, text) ==
    LET hits == {i \in 1..Len(text) : Matches(pattern, text[i])}
    IN  IF hits = {} THEN None
        ELSE Group1(pattern, text[CHOOSE i \in hits : \A j \in hits : i <= j])

\* An exception leaving a call, in place of its result.
IsRaised(r) == "raised" \in DOMAIN r

ValueError == [raised |-> "ValueError"]

\* datetime.fromisoformat(s.replace('Z', '+00:00')): an aware instant.
fromisoformat(s, any_fraction) ==
    IF s.date_ok /\ s.time_ok /\ (any_fraction \/ s.fd \in {3, 6})
    THEN [aware |-> TRUE, t |-> s.day * SecondsPerDay + s.sec]
    ELSE ValueError

\* datetime.strptime(s, '%Y-%m-%d %H:%M:%S.%f'): a naive instant; %f takes
\* at most six digits.
strptime_datetime(s) ==
    IF s.date_ok /\ s.time_ok /\ s.fd <= 6
    THEN [aware |-> FALSE, t |-> s.day * SecondsPerDay + s.sec]
    ELSE ValueError

\* datetime.combine(datetime.now().date(), strptime(s, '%H:%M:%S.%f').time())
strptime_time_today(s, today) ==
    IF s.time_ok /\ s.fd <= 6
    THEN [aware |-> FALSE, t |-> today * SecondsPerDay + s.sec]
    ELSE ValueError

\* The body of the try block: the branch is chosen by the matched text.
convert(timestamp_str, today, any_fraction) ==
    IF timestamp_str.form = "iso"              \* 'T' in timestamp_str
    THEN fromisoformat(timestamp_str, any_fraction)
    ELSE IF timestamp_str.form = "std"         \* ' ' in timestamp_str
    THEN strptime_datetime(timestamp_str)
    ELSE strptime_time_today(timestamp_str, today)

\* Faulty variant of on_ValueError: give up on the first failed conversion.
on_ValueError_return_None(rest) == None

\* except ValueError: continue -- the result is that of the later patterns.
on_ValueError(rest) == rest

RECURSIVE parse_from(_, _, _, _)
parse_from(p, text, today, any_fraction) ==
    IF p > Len(patterns) THEN None
    ELSE LET match == re_search(patterns[p], text)
             rest == parse_from(p + 1, text, today, any_fraction)
         IN  IF match # None
             THEN LET r == convert(match, today, any_fraction)
                  IN  IF r # ValueError THEN r ELSE on_ValueError(rest)
             ELSE rest

parse_timestamp(text, today, any_fraction) ==
    parse_from(1, text, today, any_fraction)

(***************************************************************************)
(* analyze_log_file                                                        *)
(***************************************************************************)
\* The results dict as created, before the file is opened.
NewLogAnalysis(file_path) ==
    [file |-> file_path, error_count |-> 0, warn_count |-> 0,
     first_timestamp |-> None, last_timestamp |-> None,
     duration_seconds |-> None, success |-> FALSE, notable_issues |-> <<>>]

\* Faulty variant of ReadFailed: the failure to open the file is not caught.
ReadFailed_uncaught(file_path) == [raised |-> "OSError"]

\* The except branch of the open: one notable issue, the rest as created.
ReadFailed(file_path) ==
    [NewLogAnalysis(file_path) EXCEPT !.notable_issues = <<"Failed to read file">>]

\* Faulty variant of set_first: the first timestamp follows the last one.
set_first_always(first, ts) == ts

\* if results['first_timestamp'] is None: results['first_timestamp'] = timestamp
set_first(first, ts) == IF first = None THEN ts ELSE first

\* Faulty variant of mark_success: the flag follows the current line.
mark_success_current(success, text) == In("\"joined\"", text)

\* if '"joined"' in line: results['success'] = True
mark_success(success, text) == IF In("\"joined\"", text) THEN TRUE ELSE success

\* The four known-issue checks, in order, on the lower-cased line.
issues_of(text) ==
    LET low == lower(text)
    IN  (IF In("disco box", low) THEN <<"Disco box error">> ELSE <<>>)
        \o (IF In("dns.iroh.link", low) THEN <<"DNS resolution failure">> ELSE <<>>)
        \o (IF In("pkarr publish error", low) THEN <<"PKarr protocol error">> ELSE <<>>)
        \o (IF In("failed to open disco box", low) THEN <<"Failed to open disco box">> ELSE <<>>)

\* One iteration of the for loop over a non-empty stripped line, given the
\* timestamp parsed from it.
scan_line(res, text, ts) ==
    [res EXCEPT
        !.error_count = IF In("ERROR", text) THEN @ + 1 ELSE @,
        !.warn_count = IF In("WARN", text) THEN @ + 1 ELSE @,
        !.first_timestamp = IF ts # None THEN set_first(@, ts) ELSE @,
        !.last_timestamp = IF ts # None THEN ts ELSE @,
        !.success = mark_success(@, text),
        !.notable_issues = @ \o issues_of(text)]

\* One iteration of the for loop: strip, skip an empty line, scan the rest.
scan_step(res, raw, today, any_fraction) ==
    LET text == strip(raw)
    IN  IF text = <<>> THEN res
        ELSE scan_line(res, text, parse_timestamp(text, today, any_fraction))

TypeError == [raised |-> "TypeError"]

\* last - first: datetime subtraction raises TypeError between an aware and
\* a naive instant; total_seconds() of the difference otherwise.
subtract(last, first) ==
    IF last.aware # first.aware THEN TypeError ELSE Float(last.t - first.t)

\* datetime.isoformat(): text with the UTC offset for an aware instant.
isoformat(dt) ==
    [isoformat |-> dt.t, offset |-> IF dt.aware THEN "+00:00" ELSE ""]

\* The code after the loop: the duration, then the timestamps as strings.
\* TypeError when the subtraction raises.  (An instant is always truthy.)
finish(res) ==
    IF res.first_timestamp # None /\ res.last_timestamp # None
    THEN LET duration == subtract(res.last_timestamp, res.first_timestamp)
         IN  IF duration = TypeError THEN TypeError
             ELSE [res EXCEPT !.duration_seconds = duration,
                              !.first_timestamp = isoformat(@),
                              !.last_timestamp = isoformat(@)]
    ELSE res

\* Lines a log file is drawn from.
IsoA == Stamp("iso", TRUE, 1, TRUE, 0, 3)
IsoB == Stamp("iso", TRUE, 1, TRUE, 5, 3)
IsoC == Stamp("iso", TRUE, 1, TRUE, 10, 6)
IsoBadDate == Stamp("iso", FALSE, 1, TRUE, 10, 3)
IsoLongFraction == Stamp("iso", TRUE, 1, TRUE, 5, 7)
StdA == Stamp("std", TRUE, 1, TRUE, 5, 3)
StdB == Stamp("std", TRUE, 1, TRUE, 9, 6)
StdLongFraction == Stamp("std", TRUE, 1, TRUE, 5, 7)
TimeA == Stamp("time", TRUE, 0, TRUE, 20, 3)
TimeBad == Stamp("time", TRUE, 0, FALSE, 0, 3)

LineSet ==
    { <<>>,
      <<Blank>>,
      <<Blank, IsoA, Word("START"), Blank>>,
      <<IsoB, Word("ERROR disco box failed")>>,
      <<IsoC, Word("{\"joined\": true}")>>,
      <<StdA, Word("WARN Failed to open Disco Box")>>,
      <<TimeA, Word("joined"), Word("resolving dns.iroh.link")>>,
      <<IsoBadDate>>,
      <<IsoLongFraction>>,
      <<StdLongFraction, Word("WARNING PKarr publish error")>>,
      <<TimeBad, Word("START")>> }

\* Contents of the readable files analyze_log_file is run on stepwise.
FileContents == UNION {[1..n -> LineSet] : n \in 0..MaxLines}

CliLog == "fedimint-cli.log"

FileInit ==
    /\ f_pc = "open"
    /\ lines = <<>>
    /\ idx = 1
    /\ line = <<>>
    /\ timestamp = None
    /\ results = NewLogAnalysis(CliLog)

\* with open(...) as f: lines = f.readlines() -- or the except branch.
OpenFile ==
    /\ f_pc = "open"
    /\ \/ /\ \E content \in FileContents : lines' = content
          /\ f_pc' = "scan"
          /\ results' = results
       \/ /\ results' = ReadFailed(results.file)
          /\ f_pc' = "returned"
          /\ lines' = lines
    /\ UNCHANGED <<iso_any_fraction, idx, line, timestamp, version_vars, main_vars, report_vars>>

\* One iteration of for line in lines.
ScanLine ==
    /\ f_pc = "scan"
    /\ idx <= Len(lines)
    /\ LET text == strip(lines[idx])
       IN  /\ line' = text
           /\ idx' = idx + 1
           /\ IF text = <<>>
              THEN UNCHANGED <<timestamp, results>>
              ELSE \E today \in Days :
                      /\ timestamp' = parse_timestamp(text, today, iso_any_fraction)
                      /\ results' = scan_step(results, lines[idx], today, iso_any_fraction)
    /\ UNCHANGED <<iso_any_fraction, f_pc, lines, version_vars, main_vars, report_vars>>

\* The code after the loop, to the return or to the TypeError.
FinishFile ==
    /\ f_pc = "scan"
    /\ idx > Len(lines)
    /\ IF finish(results) = TypeError
       THEN /\ f_pc' = "TypeError"
            /\ results' = results
       ELSE /\ f_pc' = "returned"
            /\ results' = finish(results)
    /\ UNCHANGED <<iso_any_fraction, lines, idx, line, timestamp, version_vars, main_vars, report_vars>>


(***************************************************************************)
(* analyze_log_file as one call, analyze_test_run,                         *)
(* analyze_version_directory                                               *)
(***************************************************************************)
RECURSIVE scan_all(_, _, _, _)
scan_all(res, content, today, any_fraction) ==
    IF content = <<>> THEN res
    ELSE scan_all(scan_step(res, Head(content), today, any_fraction),
                  Tail(content), today, any_fraction)

\* analyze_log_file(file_path): the LogAnalysis, or TypeError.
analyze_log_file(file, today, any_fraction) ==
    IF ~file.readable THEN ReadFailed(file.path)
    ELSE finish(scan_all(NewLogAnalysis(file.path), file.content, today, any_fraction))

\* The results dict of analyze_test_run as created.
NewTestRun(run_dir) ==
    [run_dir |-> run_dir, cli_analysis |-> None, peer_analysis |-> None]

\* The results dict of analyze_version_directory as created.
NewVersionAnalysis ==
    [test_runs |-> <<>>,
     summary |-> [total_runs |-> 0, successful_runs |-> 0,
                  avg_duration |-> None, median_duration |-> None,
                  min_duration |-> None, max_duration |-> None,
                  total_errors |-> 0, total_warnings |-> 0]]

\* Faulty variant of counts_as_success: a run succeeds when either log does.
counts_as_success_either(run) ==
    \/ run.cli_analysis # None /\ run.cli_analysis.success
    \/ run.peer_analysis # None /\ run.peer_analysis.success

\* if run_analysis['cli_analysis']: ... if cli['success']
counts_as_success(run) ==
    run.cli_analysis # None /\ run.cli_analysis.success

\* The error (or warning) counts a run adds to the totals: the CLI's and
\* the peer's, each when present.
added_count(run, field) ==
    (IF run.cli_analysis # None THEN run.cli_analysis[field] ELSE 0)
    + (IF run.peer_analysis # None THEN run.peer_analysis[field] ELSE 0)

\* The summary updates of one loop iteration.
update_summary(summary, run) ==
    [summary EXCEPT
        !.total_runs = @ + 1,
        !.successful_runs = IF counts_as_success(run) THEN @ + 1 ELSE @,
        !.total_errors = @ + added_count(run, "error_count"),
        !.total_warnings = @ + added_count(run, "warn_count")]

\* if cli['duration_seconds'] is not None: durations.append(...)
collect_duration(durs, run) ==
    IF run.cli_analysis # None /\ run.cli_analysis.duration_seconds # None
    THEN Append(durs, run.cli_analysis.duration_seconds)
    ELSE durs

RECURSIVE sum(_)
sum(durs) == IF durs = <<>> THEN Float(0) ELSE RAdd(Head(durs), sum(Tail(durs)))

\* sorted(durations)
sorted(durs) == SortSeq(durs, RLess)

\* Faulty variant of median_index: the lower median.
median_index_lower(n) == (n - 1) \div 2

\* len(sorted_durations) // 2, a zero-based index.
median_index(n) == n \div 2

\* The duration statistics after the loop.
duration_stats(summary, durs) ==
    IF durs # <<>>
    THEN LET sorted_durations == sorted(durs)
         IN  [summary EXCEPT
                !.avg_duration = RDiv(sum(durs), Float(Len(durs))),
                !.median_duration =
                    sorted_durations[median_index(Len(sorted_durations)) + 1],
                !.min_duration = sorted_durations[1],
                !.max_duration = sorted_durations[Len(sorted_durations)]]
    ELSE summary

\* Log files of the run directories.
File(path, content) == [path |-> path, readable |-> TRUE, content |-> content]

Unreadable(path) == [path |-> path, readable |-> FALSE, content |-> <<>>]

PeerLog == "fedimintd-peer0.log"

LineStart == <<IsoA, Word("START")>>
LineError == <<IsoB, Word("ERROR disco box failed")>>
LineJoined == <<IsoC, Word("{\"joined\": true}")>>
LineStdWarn == <<StdA, Word("WARN Failed to open Disco Box")>>
LineStdJoined == <<StdLongFraction, Word("{\"joined\": true}")>>

CliTen == File(CliLog, <<LineStart, LineError, LineJoined>>)
CliFive == File(CliLog, <<LineStart, LineError>>)
CliZero == File(CliLog, <<LineJoined>>)
CliNoStamp == File(CliLog, <<<<TimeBad, Word("START")>>>>)
CliMixed == File(CliLog, <<LineStart, LineStdWarn>>)
PeerWarn ==
    File(PeerLog, <<LineStdWarn, <<StdB, Word("ERROR disco box failed")>>, LineStdJoined>>)

\* A run directory: the files each glob lists, in listing order.
RunDir(cli_files, peer_files) == [cli_files |-> cli_files, peer_files |-> peer_files]

RunDirs ==
    { RunDir(<<>>, <<>>),
      RunDir(<<CliTen>>, <<PeerWarn>>),
      RunDir(<<CliFive>>, <<>>),
      RunDir(<<CliZero, CliTen>>, <<Unreadable(PeerLog)>>),
      RunDir(<<Unreadable(CliLog)>>, <<PeerWarn>>),
      RunDir(<<CliNoStamp>>, <<>>),
      RunDir(<<>>, <<PeerWarn>>),
      RunDir(<<CliMixed>>, <<>>) }

\* The listings of a version directory, sorted by name: the k-th element is
\* the k-th run directory in that order.
Listings == UNION {[1..n -> RunDirs] : n \in 0..MaxRuns}

VersionInit ==
    /\ v_pc = "list"
    /\ test_dirs = <<>>
    /\ dir_idx = 1
    /\ run_analysis = None
    /\ version_results = NewVersionAnalysis
    /\ durations = <<>>

\* test_dirs = sorted([...])
ListRuns ==
    /\ v_pc = "list"
    /\ \E listing \in Listings : test_dirs' = listing
    /\ v_pc' = "loop"
    /\ UNCHANGED <<iso_any_fraction, file_vars, dir_idx, run_analysis,
                   version_results, durations, main_vars, report_vars>>

\* analyze_test_run, to the end of the CLI branch.
AnalyzeCli ==
    /\ v_pc = "loop"
    /\ dir_idx <= Len(test_dirs)
    /\ LET cli_files == test_dirs[dir_idx].cli_files
       IN  IF cli_files # <<>>
           THEN \E today \in Days :
                   LET r == analyze_log_file(cli_files[1], today, iso_any_fraction)
                   IN  IF IsRaised(r)
                       THEN /\ v_pc' = r.raised
                            /\ run_analysis' = NewTestRun(dir_idx)
                       ELSE /\ v_pc' = "peer"
                            /\ run_analysis' =
                                  [NewTestRun(dir_idx) EXCEPT !.cli_analysis = r]
           ELSE /\ v_pc' = "peer"
                /\ run_analysis' = NewTestRun(dir_idx)
    /\ UNCHANGED <<iso_any_fraction, file_vars, test_dirs, dir_idx,
                   version_results, durations, main_vars, report_vars>>

\* analyze_test_run, the peer branch and the return.
AnalyzePeer ==
    /\ v_pc = "peer"
    /\ LET peer_files == test_dirs[dir_idx].peer_files
       IN  IF peer_files # <<>>
           THEN \E today \in Days :
                   LET r == analyze_log_file(peer_files[1], today, iso_any_fraction)
                   IN  IF IsRaised(r)
                       THEN /\ v_pc' = r.raised
                            /\ run_analysis' = run_analysis
                       ELSE /\ v_pc' = "update"
                            /\ run_analysis' = [run_analysis EXCEPT !.peer_analysis = r]
           ELSE /\ v_pc' = "update"
                /\ run_analysis' = run_analysis
    /\ UNCHANGED <<iso_any_fraction, file_vars, test_dirs, dir_idx,
                   version_results, durations, main_vars, report_vars>>

\* The rest of the loop body: the append and the summary updates.
UpdateSummary ==
    /\ v_pc = "update"
    /\ version_results' =
          [version_results EXCEPT
              !.test_runs = Append(@, run_analysis),
              !.summary = update_summary(@, run_analysis)]
    /\ durations' = collect_duration(durations, run_analysis)
    /\ dir_idx' = dir_idx + 1
    /\ v_pc' = "loop"
    /\ UNCHANGED <<iso_any_fraction, file_vars, test_dirs, run_analysis,
                   main_vars, report_vars>>

\* The code after the loop: the duration statistics and the return.
FinishVersion ==
    /\ v_pc = "loop"
    /\ dir_idx > Len(test_dirs)
    /\ version_results' =
          [version_results EXCEPT !.summary = duration_stats(@, durations)]
    /\ v_pc' = "returned"
    /\ UNCHANGED <<iso_any_fraction, file_vars, test_dirs, dir_idx,
                   run_analysis, durations, main_vars, report_vars>>


(***************************************************************************)
(* analyze_test_run and analyze_version_directory as one call              *)
(***************************************************************************)
\* analyze_test_run(run_dir): the TestRunAnalysis, or the exception of
\* analyze_log_file.
analyze_test_run(k, dir, today, any_fraction) ==
    LET cli == IF dir.cli_files # <<>>
               THEN analyze_log_file(dir.cli_files[1], today, any_fraction)
               ELSE None
        peer == IF dir.peer_files # <<>>
                THEN analyze_log_file(dir.peer_files[1], today, any_fraction)
                ELSE None
    IN  IF IsRaised(cli) THEN cli
        ELSE IF IsRaised(peer) THEN peer
        ELSE [run_dir |-> k, cli_analysis |-> cli, peer_analysis |-> peer]

RECURSIVE loop_runs(_, _, _, _, _, _)
loop_runs(res, durs, dirs, k, today, any_fraction) ==
    IF k > Len(dirs)
    THEN [res EXCEPT !.summary = duration_stats(@, durs)]
    ELSE LET run == analyze_test_run(k, dirs[k], today, any_fraction)
         IN  IF IsRaised(run) THEN run
             ELSE loop_runs([res EXCEPT !.test_runs = Append(@, run),
                                        !.summary = update_summary(@, run)],
                            collect_duration(durs, run), dirs, k + 1,
                            today, any_fraction)

\* analyze_version_directory(version_dir): its results, or the exception.
analyze_version_directory(dirs, today, any_fraction) ==
    loop_runs(NewVersionAnalysis, <<>>, dirs, 1, today, any_fraction)

(***************************************************************************)
(* Formatting and truthiness                                               *)
(***************************************************************************)
\* The integer nearest to n/d (d > 0), ties to even.
round_half_even(n, d) ==
    LET q == n \div d
        r == n % d
    IN  IF 2 * r < d THEN q
        ELSE IF 2 * r > d THEN q + 1
        ELSE IF q % 2 = 0 THEN q ELSE q + 1

\* format(x, '.2f'), '+.2f', '.1f' or '+.1f': the digits printed, as a
\* count of hundredths or tenths.  None has no such format: TypeError.
format_f(x, fmt) ==
    IF x = None THEN TypeError
    ELSE LET scale == IF fmt \in {".2f", "+.2f"} THEN 100 ELSE 10
         IN  [fmt |-> fmt, digits |-> round_half_even(x.n * scale, x.d)]

\* bool(x) of an optional float: None and 0.0 are false.
truthy(x) == x # None /\ ~IsZero(x)

(***************************************************************************)
(* main                                                                    *)
(***************************************************************************)
versions ==
    <<"baseline", "v0.8.0-beta.2", "v0.8.0-beta.2-with-n0-infra",
      "v0.8.0-beta.2-n0-only-infra">>

VersionNames == {versions[i] : i \in 1..Len(versions)}

\* Run directories of the version directories main is run on.
RunTen == RunDir(<<CliTen>>, <<PeerWarn>>)
RunFive == RunDir(<<CliFive>>, <<>>)
RunZero == RunDir(<<CliZero>>, <<>>)
RunNoStamp == RunDir(<<CliNoStamp>>, <<>>)
RunNoCli == RunDir(<<>>, <<PeerWarn>>)
RunMixed == RunDir(<<CliMixed>>, <<>>)

VersionDir(listing) == [exists |-> TRUE, listing |-> listing]

MissingDir == [exists |-> FALSE, listing |-> <<>>]

\* What main may find at a version's path.
VersionInputs ==
    { MissingDir,
      VersionDir(<<>>),
      VersionDir(<<RunTen>>),
      VersionDir(<<RunZero>>),
      VersionDir(<<RunZero, RunTen, RunFive>>),
      VersionDir(<<RunNoStamp>>),
      VersionDir(<<RunTen, RunNoCli>>),
      VersionDir(<<RunMixed>>) }

\* json.dump / json.load of the results dict.
json_dump(obj) == [json |-> obj]

json_load(text) == text.json

MainInit ==
    /\ m_pc = "analyze"
    /\ m_i = 1
    /\ m_where = ""
    /\ main_results = [v \in VersionNames |-> None]
    /\ console = <<>>
    /\ results_file = None

\* One iteration of for version in versions.
MainAnalyze ==
    /\ m_pc = "analyze"
    /\ \E input \in VersionInputs, today \in Days :
          IF ~input.exists
          THEN /\ main_results' = main_results
               /\ m_pc' = IF m_i = Len(versions) THEN "save" ELSE "analyze"
               /\ m_i' = m_i + 1
               /\ m_where' = m_where
          ELSE LET r == analyze_version_directory(input.listing, today, iso_any_fraction)
               IN  IF IsRaised(r)
                   THEN /\ m_pc' = "raised"
                        /\ m_where' = "analyze"
                        /\ UNCHANGED <<main_results, m_i>>
                   ELSE /\ main_results' = [main_results EXCEPT ![versions[m_i]] = r]
                        /\ m_pc' = IF m_i = Len(versions) THEN "save" ELSE "analyze"
                        /\ m_i' = m_i + 1
                        /\ m_where' = m_where
    /\ UNCHANGED <<iso_any_fraction, file_vars, version_vars, console,
                   results_file, report_vars>>

\* with open('log_analysis_results.json', 'w') as f: json.dump(results, f)
MainSave ==
    /\ m_pc = "save"
    /\ results_file' = json_dump(main_results)
    /\ m_pc' = "summary"
    /\ m_i' = 1
    /\ UNCHANGED <<iso_any_fraction, file_vars, version_vars, m_where,
                   main_results, console, report_vars>>

\* What one iteration of the summary loop prints for a version with runs.
summary_lines(version, summary) ==
    << [what |-> "runs", version |-> version,
        total_runs |-> summary.total_runs,
        successful_runs |-> summary.successful_runs],
       [what |-> "success rate", version |-> version,
        rate |-> format_f(Rat(summary.successful_runs * 100, summary.total_runs), ".1f")],
       IF truthy(summary.avg_duration)
       THEN [what |-> "durations", version |-> version,
             avg |-> format_f(summary.avg_duration, ".2f"),
             median |-> format_f(summary.median_duration, ".2f"),
             min |-> format_f(summary.min_duration, ".2f"),
             max |-> format_f(summary.max_duration, ".2f")]
       ELSE [what |-> "durations N/A", version |-> version],
       [what |-> "totals", version |-> version,
        total_errors |-> summary.total_errors,
        total_warnings |-> summary.total_warnings] >>

\* One iteration of for version, data in results.items(); a version that is
\* not in results has no iteration.
MainPrintSummary ==
    /\ m_pc = "summary"
    /\ LET version == versions[m_i]
           after == IF m_i < Len(versions) THEN "summary"
                    ELSE IF main_results["baseline"] # None THEN "compare"
                    ELSE "done"
           next_i == IF m_i < Len(versions) THEN m_i + 1 ELSE 2
       IN  IF main_results[version] = None
           THEN /\ m_pc' = after
                /\ m_i' = next_i
                /\ UNCHANGED <<console, m_where>>
           ELSE LET summary == main_results[version].summary
                IN  IF summary.total_runs = 0
                    THEN /\ m_pc' = "raised"
                         /\ m_where' = "success rate"
                         /\ console' = Append(console,
                                [what |-> "runs", version |-> version,
                                 total_runs |-> summary.total_runs,
                                 successful_runs |-> summary.successful_runs])
                         /\ m_i' = m_i
                    ELSE /\ m_pc' = after
                         /\ m_i' = next_i
                         /\ console' = console \o summary_lines(version, summary)
                         /\ m_where' = m_where
    /\ UNCHANGED <<iso_any_fraction, file_vars, version_vars, main_results,
                   results_file, report_vars>>

\* Faulty variant of duration_comparable: compare whenever both are present.
duration_comparable_present(baseline_avg, test_avg) ==
    baseline_avg # None /\ test_avg # None

\* if baseline['avg_duration'] and test_summary['avg_duration']
duration_comparable(baseline_avg, test_avg) ==
    truthy(baseline_avg) /\ truthy(test_avg)

\* The duration comparison of one version: the line printed (or nothing),
\* or ZeroDivisionError.
duration_change(version, baseline, test_summary) ==
    IF duration_comparable(baseline.avg_duration, test_summary.avg_duration)
    THEN LET duration_diff == RSub(test_summary.avg_duration, baseline.avg_duration)
         IN  IF IsZero(baseline.avg_duration)
             THEN [raised |-> "ZeroDivisionError", where |-> "duration change",
                   printed |-> <<>>]
             ELSE [printed |->
                    << [what |-> "duration change", version |-> version,
                        diff |-> format_f(duration_diff, "+.2f"),
                        pct |-> format_f(
                            RMul(RDiv(duration_diff, baseline.avg_duration), 100),
                            "+.1f")] >>]
    ELSE [printed |-> <<>>]

\* The rest of the comparison of one version, or ZeroDivisionError.
count_and_rate_change(version, baseline, test_summary) ==
    LET counts == [what |-> "count change", version |-> version,
                   error_diff |-> test_summary.total_errors - baseline.total_errors,
                   warn_diff |-> test_summary.total_warnings - baseline.total_warnings]
    IN  IF baseline.total_runs = 0
        THEN [raised |-> "ZeroDivisionError", where |-> "baseline rate", printed |-> <<counts>>]
        ELSE IF test_summary.total_runs = 0
        THEN [raised |-> "ZeroDivisionError", where |-> "test rate", printed |-> <<counts>>]
        ELSE [printed |->
                << counts,
                   [what |-> "rate change", version |-> version,
                    rate_diff |-> format_f(
                        RSub(Rat(test_summary.successful_runs * 100, test_summary.total_runs),
                             Rat(baseline.successful_runs * 100, baseline.total_runs)),
                        "+.1f")] >>]

\* One iteration of the comparative loop over the non-baseline versions.
MainCompare ==
    /\ m_pc = "compare"
    /\ LET version == versions[m_i]
           baseline == main_results["baseline"].summary
           after == IF m_i < Len(versions) THEN "compare" ELSE "done"
       IN  IF main_results[version] = None
           THEN /\ m_pc' = after
                /\ m_i' = m_i + 1
                /\ UNCHANGED <<console, m_where>>
           ELSE LET test_summary == main_results[version].summary
                    head == <<[what |-> "compare", version |-> version]>>
                    dur == duration_change(version, baseline, test_summary)
                    rest == count_and_rate_change(version, baseline, test_summary)
                IN  IF IsRaised(dur)
                    THEN /\ m_pc' = "raised"
                         /\ m_where' = dur.where
                         /\ console' = console \o head
                         /\ m_i' = m_i
                    ELSE IF IsRaised(rest)
                    THEN /\ m_pc' = "raised"
                         /\ m_where' = rest.where
                         /\ console' = console \o head \o dur.printed \o rest.printed
                         /\ m_i' = m_i
                    ELSE /\ m_pc' = after
                         /\ m_i' = m_i + 1
                         /\ console' = console \o head \o dur.printed \o rest.printed
                         /\ m_where' = m_where
    /\ UNCHANGED <<iso_any_fraction, file_vars, version_vars, main_results,
                   results_file, report_vars>>


(***************************************************************************)
(* generate_detailed_report                                                *)
(***************************************************************************)
ReportInit ==
    /\ r_pc = "load"
    /\ r_i = 1
    /\ r_raised = ""
    /\ report_results = None
    /\ markdown = <<>>

\* The report is run once main has ended: with open(...) as f:
\* results = json.load(f)
ReportLoad ==
    /\ r_pc = "load"
    /\ m_pc \in {"done", "raised"}
    /\ IF results_file = None
       THEN /\ r_pc' = "raised"
            /\ r_raised' = "FileNotFoundError"
            /\ report_results' = report_results
       ELSE /\ r_pc' = "stats"
            /\ r_raised' = r_raised
            /\ report_results' = json_load(results_file)
    /\ UNCHANGED <<iso_any_fraction, file_vars, version_vars, main_vars, r_i, markdown>>

\* max_dur - min_dur if max_dur and min_dur else 0
range_of(max_dur, min_dur) ==
    IF truthy(max_dur) /\ truthy(min_dur) THEN RSub(max_dur, min_dur) ELSE Float(0)

\* The first exception among the cells of a row, "" when there is none.
RECURSIVE first_raised(_)
first_raised(cells) ==
    IF cells = <<>> THEN ""
    ELSE IF IsRaised(Head(cells)) THEN Head(cells).raised
    ELSE first_raised(Tail(cells))

\* The cells of a row of the performance statistics table, in the order the
\* f-string formats them.
stats_cells(summary) ==
    << format_f(summary.avg_duration, ".2f"),
       format_f(summary.median_duration, ".2f"),
       format_f(summary.min_duration, ".2f"),
       format_f(summary.max_duration, ".2f"),
       format_f(range_of(summary.max_duration, summary.min_duration), ".2f") >>

\* The advance of one of the loops over the version list.
NextVersion(first, after) ==
    IF r_i < Len(versions)
    THEN r_pc' = r_pc /\ r_i' = r_i + 1
    ELSE r_pc' = after /\ r_i' = first

\* One iteration of the loop of the performance statistics table.
ReportStatsRow ==
    /\ r_pc = "stats"
    /\ LET version == versions[r_i]
       IN  IF report_results[version] = None
           THEN NextVersion(1, "baseline") /\ UNCHANGED <<markdown, r_raised>>
           ELSE LET summary == report_results[version].summary
                    cells == stats_cells(summary)
                IN  IF first_raised(cells) # ""
                    THEN /\ r_pc' = "raised"
                         /\ r_raised' = first_raised(cells)
                         /\ UNCHANGED <<markdown, r_i>>
                    ELSE /\ NextVersion(1, "baseline")
                         /\ r_raised' = r_raised
                         /\ markdown' = Append(markdown,
                               [what |-> "stats", version |-> version,
                                avg |-> cells[1], median |-> cells[2],
                                min |-> cells[3], max |-> cells[4],
                                range |-> cells[5],
                                successful_runs |-> summary.successful_runs,
                                total_runs |-> summary.total_runs,
                                rate |-> "(100%)"])
    /\ UNCHANGED <<iso_any_fraction, file_vars, version_vars, main_vars, report_results>>

\* baseline_summary = results['baseline']['summary'] and the four reads.
ReportBaseline ==
    /\ r_pc = "baseline"
    /\ IF report_results["baseline"] = None
       THEN r_pc' = "raised" /\ r_raised' = "KeyError" /\ r_i' = r_i
       ELSE r_pc' = "changes" /\ r_raised' = r_raised /\ r_i' = 2
    /\ UNCHANGED <<iso_any_fraction, file_vars, version_vars, main_vars,
                   report_results, markdown>>

\* ((x - baseline) / baseline) * 100: TypeError on None, ZeroDivisionError
\* on a zero baseline.
pct_change(x, baseline_x) ==
    IF x = None \/ baseline_x = None THEN TypeError
    ELSE IF IsZero(baseline_x) THEN [raised |-> "ZeroDivisionError"]
    ELSE RMul(RDiv(RSub(x, baseline_x), baseline_x), 100)

\* The four changes of a row of the comparison table, in order.
change_cells(summary, baseline_summary) ==
    << pct_change(summary.avg_duration, baseline_summary.avg_duration),
       pct_change(summary.median_duration, baseline_summary.median_duration),
       pct_change(summary.min_duration, baseline_summary.min_duration),
       pct_change(summary.max_duration, baseline_summary.max_duration) >>

\* One iteration of the loop of the comparison table.
ReportChangeRow ==
    /\ r_pc = "changes"
    /\ LET version == versions[r_i]
       IN  IF report_results[version] = None
           THEN NextVersion(1, "errors") /\ UNCHANGED <<markdown, r_raised>>
           ELSE LET cells == change_cells(report_results[version].summary,
                                          report_results["baseline"].summary)
                IN  IF first_raised(cells) # ""
                    THEN /\ r_pc' = "raised"
                         /\ r_raised' = first_raised(cells)
                         /\ UNCHANGED <<markdown, r_i>>
                    ELSE /\ NextVersion(1, "errors")
                         /\ r_raised' = r_raised
                         /\ markdown' = Append(markdown,
                               [what |-> "changes", version |-> version,
                                avg |-> format_f(cells[1], ".1f"),
                                median |-> format_f(cells[2], ".1f"),
                                min |-> format_f(cells[3], ".1f"),
                                max |-> format_f(cells[4], ".1f")])
    /\ UNCHANGED <<iso_any_fraction, file_vars, version_vars, main_vars, report_results>>

\* One iteration of the loop of the error and warning table.
ReportErrorRow ==
    /\ r_pc = "errors"
    /\ LET version == versions[r_i]
           baseline_summary == report_results["baseline"].summary
       IN  IF report_results[version] = None
           THEN NextVersion(1, "details") /\ markdown' = markdown
           ELSE LET summary == report_results[version].summary
                IN  /\ NextVersion(1, "details")
                    /\ markdown' = Append(markdown,
                          [what |-> "errors", version |-> version,
                           errors |-> summary.total_errors,
                           warnings |-> summary.total_warnings,
                           diffs |-> IF version = "baseline" THEN <<"-", "-">>
                                     ELSE <<summary.total_errors - baseline_summary.total_errors,
                                            summary.total_warnings
                                                - baseline_summary.total_warnings>>])
    /\ UNCHANGED <<iso_any_fraction, file_vars, version_vars, main_vars,
                   report_results, r_raised>>

\* issue_counts: the labels in order of first occurrence, each with its count.
RECURSIVE issue_counts(_, _)
issue_counts(issues, counts) ==
    IF issues = <<>> THEN counts
    ELSE LET issue == Head(issues)
             seen == {j \in 1..Len(counts) : counts[j][1] = issue}
         IN  issue_counts(Tail(issues),
                 IF seen = {} THEN Append(counts, <<issue, 1>>)
                 ELSE [j \in 1..Len(counts) |->
                          IF j \in seen THEN <<issue, counts[j][2] + 1>> ELSE counts[j]])

\* The row of one run in the details table, or TypeError: cli is None, or
\* its duration is None.
detail_row(i, run) ==
    IF run.cli_analysis = None THEN TypeError
    ELSE LET cli == run.cli_analysis
             duration == format_f(cli.duration_seconds, ".2f")
         IN  IF IsRaised(duration) THEN duration
             ELSE [what |-> "run", run |-> i, duration |-> duration,
                   success |-> cli.success, errors |-> cli.error_count,
                   warnings |-> cli.warn_count,
                   issues |-> issue_counts(cli.notable_issues, <<>>)]

\* The rows of for i, run in enumerate(test_runs, 1), up to the first
\* exception.
RECURSIVE detail_rows(_, _, _)
detail_rows(runs, i, rows) ==
    IF i > Len(runs) THEN [rows |-> rows, raised |-> ""]
    ELSE LET row == detail_row(i, runs[i])
         IN  IF IsRaised(row) THEN [rows |-> rows, raised |-> row.raised]
             ELSE detail_rows(runs, i + 1, Append(rows, row))

\* One iteration of the loop of the per-version details tables.
ReportRunDetails ==
    /\ r_pc = "details"
    /\ LET version == versions[r_i]
       IN  IF report_results[version] = None
           THEN NextVersion(1, "done") /\ UNCHANGED <<markdown, r_raised>>
           ELSE LET table == detail_rows(report_results[version].test_runs, 1, <<>>)
                    head == <<[what |-> "details", version |-> version]>>
                IN  /\ markdown' = markdown \o head \o table.rows
                    /\ IF table.raised # ""
                       THEN r_pc' = "raised" /\ r_raised' = table.raised /\ r_i' = r_i
                       ELSE NextVersion(1, "done") /\ r_raised' = r_raised
    /\ UNCHANGED <<iso_any_fraction, file_vars, version_vars, main_vars, report_results>>

EnvInit == iso_any_fraction \in BOOLEAN

FileSpecInit == EnvInit /\ FileInit /\ VersionInit /\ MainInit /\ ReportInit

FileNext == OpenFile \/ ScanLine \/ FinishFile

\* analyze_log_file on one file, line by line.
FileSpec == FileSpecInit /\ [][FileNext]_vars

VersionSpecInit == EnvInit /\ FileInit /\ VersionInit /\ MainInit /\ ReportInit

VersionNext ==
    ListRuns \/ AnalyzeCli \/ AnalyzePeer \/ UpdateSummary \/ FinishVersion

\* analyze_version_directory on one version directory, run by run.
VersionSpec == VersionSpecInit /\ [][VersionNext]_vars

MainSpecInit == EnvInit /\ FileInit /\ VersionInit /\ MainInit /\ ReportInit

MainNext ==
    \/ MainAnalyze \/ MainSave \/ MainPrintSummary \/ MainCompare
    \/ ReportLoad \/ ReportStatsRow \/ ReportBaseline \/ ReportChangeRow
    \/ ReportErrorRow \/ ReportRunDetails

\* main of analyze_logs.py, then generate_detailed_report on the file it left.
MainSpec == MainSpecInit /\ [][MainNext]_vars

(***************************************************************************)
(* Properties of analyze_log_file and parse_timestamp (FileSpec).          *)
(***************************************************************************)
\* The lines of the file that are non-empty once stripped and yield a
\* timestamp (whether a line yields one does not depend on the date).
StampedLines ==
    {j \in 1..Len(lines) :
        /\ strip(lines[j]) # <<>>
        /\ parse_timestamp(strip(lines[j]), 1, iso_any_fraction) # None}

Least(S) == CHOOSE i \in S : \A j \in S : i <= j

Greatest(S) == CHOOSE i \in S : \A j \in S : j <= i

\* The strings isoformat may give for the timestamp of line j.
StampTextOf(j) ==
    {isoformat(parse_timestamp(strip(lines[j]), d, iso_any_fraction)) : d \in Days}

\* C1: in the LogAnalysis analyze_log_file returns, duration_seconds is
\* present iff first_timestamp and last_timestamp both are; first_timestamp
\* is the timestamp of the first stripped non-empty line that yielded one,
\* last_timestamp that of the last such line, and duration_seconds is
\* last - first in seconds.
C1_Duration ==
    f_pc = "returned" =>
        /\ results.duration_seconds # None
              <=> (results.first_timestamp # None /\ results.last_timestamp # None)
        /\ StampedLines = {} =>
              results.first_timestamp = None /\ results.last_timestamp = None
        /\ StampedLines # {} =>
              /\ results.first_timestamp \in StampTextOf(Least(StampedLines))
              /\ results.last_timestamp \in StampTextOf(Greatest(StampedLines))
              /\ results.duration_seconds =
                    Float(results.last_timestamp.isoformat
                            - results.first_timestamp.isoformat)

\* A returned analysis of a three-line file whose last line has no
\* timestamp and whose first and last timestamps are 10 seconds apart.
C1_Witness ==
    /\ f_pc = "returned"
    /\ Len(lines) = 3
    /\ StampedLines = {1, 2}
    /\ results.duration_seconds = Float(10)

\* The result the first matching pattern alone would decide: None when its
\* text fails to convert.
FirstMatchDecides(text, today) ==
    LET hit == {p \in 1..Len(patterns) : re_search(patterns[p], text) # None}
    IN  IF hit = {} THEN None
        ELSE LET r == convert(re_search(patterns[Least(hit)], text), today,
                              iso_any_fraction)
             IN  IF r = ValueError THEN None ELSE r

\* The result of the first pattern that matches and whose text converts.
FirstConverted(text, today) ==
    LET good == {p \in 1..Len(patterns) :
                    /\ re_search(patterns[p], text) # None
                    /\ convert(re_search(patterns[p], text), today,
                               iso_any_fraction) # ValueError}
    IN  IF good = {} THEN None
        ELSE convert(re_search(patterns[Least(good)], text), today,
                     iso_any_fraction)

\* C3 as stated: the first pattern whose regex matches the line decides the
\* result; when its text fails to convert the result is none and no later
\* pattern is tried.
C3_FirstMatchDecides ==
    line # <<>> => timestamp \in {FirstMatchDecides(line, d) : d \in Days}

\* C3 amended: the patterns are tried in order and the result is that of
\* the first pattern that both matches the line and converts; a pattern
\* whose text fails to convert with a ValueError is skipped like one that
\* did not match, and the result is none only when no pattern converts.
C3_FirstConverted ==
    line # <<>> => timestamp \in {FirstConverted(line, d) : d \in Days}

\* A line whose ISO pattern matched text that failed to convert, and a
\* timestamp was returned for it all the same.
C3_Witness ==
    /\ line # <<>>
    /\ re_search("iso", line) # None
    /\ \A d \in Days : convert(re_search("iso", line), d, iso_any_fraction) = ValueError
    /\ timestamp # None
    /\ idx > 1

\* C5: success starts false and only goes from false to true while a file
\* is scanned; after any number of lines it is true iff one of the stripped
\* non-empty lines scanned so far contained the text "joined" in double
\* quotes.
C5_Success ==
    /\ [](f_pc = "open" => ~results.success)
    /\ [][results.success => results'.success]_vars
    /\ [](f_pc # "open" =>
            (results.success <=>
                \E j \in 1..(idx - 1) : In("\"joined\"", strip(lines[j]))))

\* success is set, and the line just scanned did not contain the marker.
C5_Witness ==
    /\ f_pc = "scan"
    /\ results.success
    /\ line # <<>>
    /\ ~In("\"joined\"", line)

\* C9: for every readable file, analyze_log_file returns without raising.
C9_NeverRaises == f_pc # "TypeError"

(***************************************************************************)
(* Properties of analyze_version_directory (VersionSpec).                  *)
(***************************************************************************)
\* The runs appended so far that have a CLI analysis with a duration.
TimedRuns ==
    {k \in 1..Len(version_results.test_runs) :
        /\ version_results.test_runs[k].cli_analysis # None
        /\ version_results.test_runs[k].cli_analysis.duration_seconds # None}

CliDuration(k) == version_results.test_runs[k].cli_analysis.duration_seconds

RECURSIVE SumOver(_)
SumOver(K) ==
    IF K = {} THEN Float(0)
    ELSE LET k == CHOOSE x \in K : TRUE
         IN  RAdd(CliDuration(k), SumOver(K \ {k}))

\* m is the element at zero-based index n div 2 of the ascending sort of
\* the n collected durations: at most n div 2 of them are below m and more
\* than n div 2 are at most m.
IsUpperMedian(m) ==
    LET n == Cardinality(TimedRuns)
    IN  /\ \E k \in TimedRuns : CliDuration(k) = m
        /\ Cardinality({k \in TimedRuns : RLess(CliDuration(k), m)}) <= n \div 2
        /\ Cardinality({k \in TimedRuns : ~RLess(m, CliDuration(k))}) > n \div 2

\* C2: once analyze_version_directory has returned, the four duration
\* statistics are all set iff some run had a CLI analysis with a duration
\* (and all unset otherwise); when set, min and max are the least and the
\* greatest collected CLI duration, median is the element at index
\* len div 2 of their ascending sort, and avg is their sum over their
\* count.  Peer durations are not collected.
C2_Statistics ==
    v_pc = "returned" =>
        LET sm == version_results.summary
        IN  IF TimedRuns = {}
            THEN /\ sm.avg_duration = None
                 /\ sm.median_duration = None
                 /\ sm.min_duration = None
                 /\ sm.max_duration = None
            ELSE /\ sm.avg_duration # None
                 /\ sm.avg_duration = RDiv(SumOver(TimedRuns), Float(Cardinality(TimedRuns)))
                 /\ sm.median_duration # None
                 /\ IsUpperMedian(sm.median_duration)
                 /\ \E k \in TimedRuns : CliDuration(k) = sm.min_duration
                 /\ \A k \in TimedRuns : ~RLess(CliDuration(k), sm.min_duration)
                 /\ \E k \in TimedRuns : CliDuration(k) = sm.max_duration
                 /\ \A k \in TimedRuns : ~RLess(sm.max_duration, CliDuration(k))

\* Two CLI durations, 10 then 5, and a peer log with a duration of its own:
\* the median is the upper one.
C2_Witness ==
    /\ v_pc = "returned"
    /\ durations = <<Float(10), Float(5)>>
    /\ version_results.summary.median_duration = Float(10)
    /\ version_results.summary.min_duration = Float(5)
    /\ \E k \in 1..Len(version_results.test_runs) :
          /\ version_results.test_runs[k].peer_analysis # None
          /\ version_results.test_runs[k].peer_analysis.duration_seconds # None

\* The defaults a failed read leaves: one notable issue, nothing else.
IsReadFailure(analysis) ==
    /\ analysis # None
    /\ analysis.notable_issues = <<"Failed to read file">>
    /\ analysis.error_count = 0
    /\ analysis.warn_count = 0
    /\ analysis.first_timestamp = None
    /\ analysis.last_timestamp = None
    /\ analysis.duration_seconds = None
    /\ analysis.success = FALSE

FirstUnreadable(files) == files # <<>> /\ ~files[1].readable

\* C4: a log file that cannot be read does not raise: its analysis holds
\* the one 'Failed to read file' issue and the defaults otherwise, the run
\* goes on to its other log and to the summary update, and in the returned
\* result every run directory is counted in total_runs and has an analysis
\* for each log it holds.
C4_ReadFailure ==
    /\ [][(/\ v_pc = "loop"
           /\ dir_idx <= Len(test_dirs)
           /\ FirstUnreadable(test_dirs[dir_idx].cli_files)
           /\ v_pc' # v_pc)
          => (v_pc' = "peer" /\ IsReadFailure(run_analysis'.cli_analysis))]_vars
    /\ [][(/\ v_pc = "peer"
           /\ FirstUnreadable(test_dirs[dir_idx].peer_files)
           /\ v_pc' # v_pc)
          => (/\ v_pc' = "update"
              /\ IsReadFailure(run_analysis'.peer_analysis)
              /\ run_analysis'.cli_analysis = run_analysis.cli_analysis)]_vars
    /\ [](v_pc = "returned" =>
            /\ version_results.summary.total_runs = Len(test_dirs)
            /\ Len(version_results.test_runs) = Len(test_dirs)
            /\ \A k \in 1..Len(test_dirs) :
                  LET run == version_results.test_runs[k]
                  IN  /\ (test_dirs[k].cli_files # <<>>) <=> (run.cli_analysis # None)
                      /\ (test_dirs[k].peer_files # <<>>) <=> (run.peer_analysis # None)
                      /\ FirstUnreadable(test_dirs[k].cli_files)
                            <=> IsReadFailure(run.cli_analysis)
                      /\ FirstUnreadable(test_dirs[k].peer_files)
                            <=> IsReadFailure(run.peer_analysis))

\* A returned result of three runs: the first with an unreadable CLI log
\* and an analyzed peer log, the last analyzed after it.
C4_Witness ==
    /\ v_pc = "returned"
    /\ Len(test_dirs) = 3
    /\ FirstUnreadable(test_dirs[1].cli_files)
    /\ version_results.test_runs[1].peer_analysis # None
    /\ version_results.test_runs[1].peer_analysis.warn_count = 1
    /\ version_results.test_runs[3].cli_analysis # None
    /\ version_results.test_runs[3].cli_analysis.duration_seconds = Float(10)
    /\ version_results.summary.total_runs = 3

RECURSIVE CountOver(_, _)
CountOver(runs, field) ==
    IF runs = <<>> THEN 0
    ELSE (IF Head(runs).cli_analysis # None THEN Head(runs).cli_analysis[field] ELSE 0)
         + (IF Head(runs).peer_analysis # None THEN Head(runs).peer_analysis[field] ELSE 0)
         + CountOver(Tail(runs), field)

\* C8: after any prefix of the run directories, total_runs is the number of
\* runs processed, successful_runs the number of them whose CLI analysis
\* exists and has success set, total_errors and total_warnings the sums of
\* the counts of every CLI and peer analysis present, and successful_runs
\* is at most total_runs.
C8_Totals ==
    LET runs == version_results.test_runs
        sm == version_results.summary
    IN  /\ sm.total_runs = Len(runs)
        /\ v_pc \in {"loop", "returned"} => sm.total_runs = dir_idx - 1
        /\ sm.successful_runs =
              Cardinality({k \in 1..Len(runs) :
                  runs[k].cli_analysis # None /\ runs[k].cli_analysis.success})
        /\ sm.total_errors = CountOver(runs, "error_count")
        /\ sm.total_warnings = CountOver(runs, "warn_count")
        /\ sm.successful_runs <= sm.total_runs

\* Two of three runs processed: one with no log at all, one with only a
\* successful peer log; neither counts as successful, the peer's error and
\* warning are in the totals.
C8_Witness ==
    /\ v_pc = "loop"
    /\ Len(test_dirs) = 3
    /\ dir_idx = 3
    /\ \E k \in 1..2 :
          /\ version_results.test_runs[k].cli_analysis = None
          /\ version_results.test_runs[k].peer_analysis = None
    /\ \E k \in 1..2 :
          /\ version_results.test_runs[k].cli_analysis = None
          /\ version_results.test_runs[k].peer_analysis # None
          /\ version_results.test_runs[k].peer_analysis.success
    /\ version_results.summary.total_runs = 2
    /\ version_results.summary.successful_runs = 0
    /\ version_results.summary.total_errors = 1
    /\ version_results.summary.total_warnings = 1

(***************************************************************************)
(* Properties of main and generate_detailed_report (MainSpec).             *)
(***************************************************************************)
\* The comparative loop has run its iteration for the i-th version, which
\* is in results, to the end or to an exception.
Attempted(i) ==
    /\ main_results["baseline"] # None
    /\ main_results[versions[i]] # None
    /\ \/ m_pc = "done"
       \/ m_pc = "compare" /\ m_i > i
       \/ /\ m_pc = "raised"
          /\ m_where \in {"duration change", "baseline rate", "test rate"}
          /\ m_i = i

DurationChangePrinted(i) ==
    \E j \in 1..Len(console) :
        console[j].what = "duration change" /\ console[j].version = versions[i]

FaultedInDurationChange == m_pc = "raised" /\ m_where = "duration change"

\* C6 as stated: for a non-baseline version the duration delta and the
\* percentage change are printed whenever the baseline's and the version's
\* avg_duration are both present, and when the baseline's is exactly 0 the
\* percentage computation is a division fault that ends the run.
C6_PresentOrFault ==
    \A i \in 2..Len(versions) :
        Attempted(i) =>
            LET b == main_results["baseline"].summary.avg_duration
                t == main_results[versions[i]].summary.avg_duration
            IN  (b # None /\ t # None) =>
                    IF IsZero(b) THEN FaultedInDurationChange
                    ELSE DurationChangePrinted(i)

\* C6 amended: the duration delta and the percentage change are printed
\* exactly when both avg_durations are present and non-zero, the delta
\* being version - baseline and the percentage delta / baseline * 100; an
\* avg_duration of exactly 0, the baseline's or the version's, skips the
\* comparison like an absent one, and the duration comparison never faults.
C6_NonZeroOrSkipped ==
    /\ ~FaultedInDurationChange
    /\ \A i \in 2..Len(versions) :
          Attempted(i) =>
              LET b == main_results["baseline"].summary.avg_duration
                  t == main_results[versions[i]].summary.avg_duration
              IN  /\ DurationChangePrinted(i)
                        <=> (b # None /\ b.n # 0 /\ t # None /\ t.n # 0)
                  /\ \A j \in 1..Len(console) :
                        (console[j].what = "duration change"
                            /\ console[j].version = versions[i])
                        => /\ console[j].diff = format_f(RSub(t, b), "+.2f")
                           /\ console[j].pct =
                                 format_f(RMul(RDiv(RSub(t, b), b), 100), "+.1f")

\* main ran to its end with a baseline whose average is exactly 0 and a
\* version whose average is 10: nothing was printed for the duration.
C6_Witness ==
    /\ m_pc = "done"
    /\ Attempted(2)
    /\ main_results["baseline"].summary.avg_duration = Float(0)
    /\ main_results[versions[2]].summary.avg_duration = Float(10)
    /\ ~DurationChangePrinted(2)

\* C7: every row of the performance statistics table shows max_duration -
\* min_duration in its Range column.
C7_Range ==
    \A j \in 1..Len(markdown) :
        markdown[j].what = "stats" =>
            LET summary == report_results[markdown[j].version].summary
            IN  markdown[j].range =
                    format_f(RSub(summary.max_duration, summary.min_duration), ".2f")

\* No duration statistic of the summary is exactly 0.
NoZeroStatistic(summary) ==
    \A x \in {summary.avg_duration, summary.median_duration,
              summary.min_duration, summary.max_duration} :
        x = None \/ ~IsZero(x)

\* C10: the report completes without a fault whenever the results were
\* loaded, hold a baseline entry none of whose duration statistics is 0,
\* and every run of every version has a CLI analysis.
C10_NoOtherFault ==
    r_pc = "raised" =>
        ~(/\ report_results # None
          /\ report_results["baseline"] # None
          /\ NoZeroStatistic(report_results["baseline"].summary)
          /\ \A v \in VersionNames :
                report_results[v] # None =>
                    \A k \in 1..Len(report_results[v].test_runs) :
                        report_results[v].test_runs[k].cli_analysis # None)

====
